---- MODULE Spec2Model ----
(***************************************************************************)
(* The six encoders of services/algorithms.ts (RLE, Huffman, LZW, Golomb,  *)
(* Arithmetic, Tunstall) as a state machine: one call of one encoder on    *)
(* one input, one action per loop iteration; and the App component that    *)
(* calls them from its recompute effect, one action per event handler.     *)
(*                                                                         *)
(* A JavaScript string is a sequence of UTF-16 code units (naturals):     *)
(* indexing, length, slice and startsWith work on units, for..of visits    *)
(* code points (a surrogate pair is one symbol).  The inputs enumerated    *)
(* below are well-formed UTF-16.                                           *)
(* A JavaScript number that the code uses as a fraction, and the divisor   *)
(* M of Golomb, is an IEEE-754 binary64 value, kept as sign, 53-bit        *)
(* significand and exponent, with every operation rounded to nearest,      *)
(* ties to even; counts, indices and parsed numbers are integers.          *)
(***************************************************************************)
EXTENDS Integers, Sequences, FiniteSets, TLC

NULL == "null"

Max(a, b) == IF a >= b THEN a ELSE b
Min(a, b) == IF a <= b THEN a ELSE b

(***************************************************************************)
(* Natural numbers of any size: little-endian limbs in base 2^15, no       *)
(* leading zero limb (zero is the empty sequence).                         *)
(***************************************************************************)
BASE == 2^15

Pow2(n) == 2^n

\* the number of bits of x, 0 <= x < 2^31
BitLenSmall(x) == Cardinality({k \in 0..30 : Pow2(k) <= x})

LIMB_BITS == BitLenSmall(BASE) - 1

\* a without its leading zero limbs
BigTrim(a) ==
  LET top == Cardinality({i \in 1..Len(a) : \E j \in i..Len(a) : a[j] # 0})
  IN  SubSeq(a, 1, top)

Limb(a, i) == IF i <= Len(a) THEN a[i] ELSE 0

RECURSIVE BigFromInt(_)
BigFromInt(n) == IF n = 0 THEN <<>> ELSE <<n % BASE>> \o BigFromInt(n \div BASE)

RECURSIVE BigAddFrom(_, _, _, _)
BigAddFrom(a, b, i, c) ==
  IF i > Len(a) /\ i > Len(b)
  THEN (IF c = 0 THEN <<>> ELSE <<c>>)
  ELSE LET s == Limb(a, i) + Limb(b, i) + c
       IN  <<s % BASE>> \o BigAddFrom(a, b, i + 1, s \div BASE)

BigAdd(a, b) == BigAddFrom(a, b, 1, 0)

RECURSIVE BigSubFrom(_, _, _, _)
BigSubFrom(a, b, i, borrow) ==
  IF i > Len(a) THEN <<>>
  ELSE LET d == Limb(a, i) - Limb(b, i) - borrow
       IN  IF d < 0 THEN <<d + BASE>> \o BigSubFrom(a, b, i + 1, 1)
                    ELSE <<d>> \o BigSubFrom(a, b, i + 1, 0)

\* a - b for a >= b
BigSub(a, b) == BigTrim(BigSubFrom(a, b, 1, 0))

RECURSIVE BigMulSmallFrom(_, _, _, _)
BigMulSmallFrom(a, k, i, c) ==
  IF i > Len(a) THEN (IF c = 0 THEN <<>> ELSE <<c>>)
  ELSE LET p == a[i] * k + c
       IN  <<p % BASE>> \o BigMulSmallFrom(a, k, i + 1, p \div BASE)

\* a * k for 0 <= k < BASE
BigMulSmall(a, k) == IF k = 0 THEN <<>> ELSE BigMulSmallFrom(a, k, 1, 0)

BigShiftLimbs(a, n) == IF a = <<>> THEN <<>> ELSE [j \in 1..n |-> 0] \o a

\* a * b, from the partial sum acc.sum of the limbs of b below the acc.j-th
RECURSIVE BigMulFrom(_, _, _)
BigMulFrom(a, b, acc) ==
  IF acc.j > Len(b) THEN acc.sum
  ELSE BigMulFrom(a, b,
         [j |-> acc.j + 1,
          sum |-> BigAdd(acc.sum, BigShiftLimbs(BigMulSmall(a, b[acc.j]), acc.j - 1))])

BigMul(a, b) == BigMulFrom(a, b, [j |-> 1, sum |-> <<>>])

\* quotient and remainder of a by k, 0 < k < BASE, from the top limb down:
\* acc.q is the quotient of the limbs taken so far and acc.r their remainder
RECURSIVE BigDivSmallFrom(_, _, _)
BigDivSmallFrom(a, k, acc) ==
  IF Len(acc.q) = Len(a) THEN acc
  ELSE LET cur == acc.r * BASE + a[Len(a) - Len(acc.q)]
       IN  BigDivSmallFrom(a, k, [q |-> <<cur \div k>> \o acc.q, r |-> cur % k])

BigDivSmall(a, k) ==
  LET d == BigDivSmallFrom(a, k, [q |-> <<>>, r |-> 0]) IN [q |-> BigTrim(d.q), r |-> d.r]

\* a against b from the i-th limb down: the highest limb that differs decides
BigCmpFrom(a, b, i) ==
  LET top == Cardinality({x \in 1..i : \E j \in x..i : a[j] # b[j]})
  IN  IF top = 0 THEN 0 ELSE IF a[top] > b[top] THEN 1 ELSE -1

\* -1, 0, 1 as a <, =, > b
BigCmp(a, b) ==
  IF Len(a) > Len(b) THEN 1
  ELSE IF Len(a) < Len(b) THEN -1
  ELSE BigCmpFrom(a, b, Len(a))

\* a * 2^n: each limb takes the low bits of its own limb, moved up, and the
\* high bits of the limb below
BigShl(a, n) ==
  LET up == Pow2(n % LIMB_BITS)
      hi == Pow2(LIMB_BITS - (n % LIMB_BITS))
      moved == [j \in 1..(Len(a) + 1) |->
                  (Limb(a, j) % hi) * up + (IF j = 1 THEN 0 ELSE a[j - 1] \div hi)]
  IN  BigShiftLimbs(BigTrim(moved), n \div LIMB_BITS)

\* floor(a / 2^n): each limb takes the high bits of its own limb, moved down,
\* and the low bits of the limb above
BigShr(a, n) ==
  LET down == Pow2(n % LIMB_BITS)
      up == Pow2(LIMB_BITS - (n % LIMB_BITS))
      kept == SubSeq(a, (n \div LIMB_BITS) + 1, Len(a))
      moved == [j \in 1..Len(kept) |->
                  (kept[j] \div down) + (Limb(kept, j + 1) % down) * up]
  IN  BigTrim(moved)

BigBitLen(a) ==
  IF a = <<>> THEN 0 ELSE LIMB_BITS * (Len(a) - 1) + BitLenSmall(a[Len(a)])

BigOdd(a) == a # <<>> /\ a[1] % 2 = 1

\* a * 10^f, four decimal places at a time
RECURSIVE BigMulPow10(_, _)
BigMulPow10(a, f) ==
  IF a = <<>> THEN <<>>
  ELSE IF f <= 4 THEN BigMulSmall(a, 10^f)
  ELSE BigMulPow10(BigMulSmall(a, 10^4), f - 4)

\* the digits of acc.a, four at a time, in front of the digits acc.ds
RECURSIVE BigDigitsFrom(_)
BigDigitsFrom(acc) ==
  IF acc.a = <<>> THEN acc.ds
  ELSE LET d == BigDivSmall(acc.a, 10^4)
       IN  BigDigitsFrom([a |-> d.q,
                          ds |-> [j \in 1..4 |-> (d.r \div 10^(4 - j)) % 10] \o acc.ds])

\* decimal digits of a, most significant first (empty for zero)
BigDigits(a) ==
  LET ds == BigDigitsFrom([a |-> a, ds |-> <<>>])
      zeros == Cardinality({i \in 1..Len(ds) : \A j \in 1..i : ds[j] = 0})
  IN  SubSeq(ds, zeros + 1, Len(ds))

(***************************************************************************)
(* IEEE-754 binary64.  A value is (-1)^s * m * 2^e with m of exactly       *)
(* MANT_BITS bits, or zero (m empty, e = 0).  The encoders only produce    *)
(* finite values far from the overflow and subnormal ranges.               *)
(***************************************************************************)
MANT_BITS == 53

DZero == [s |-> 0, m |-> <<>>, e |-> 0]

\* the double nearest to (-1)^s * N * 2^e, ties to even
RoundBig(s, N, e) ==
  LET L == BigBitLen(N) IN
  IF L = 0 THEN DZero
  ELSE IF L <= MANT_BITS
  THEN [s |-> s, m |-> BigShl(N, MANT_BITS - L), e |-> e - (MANT_BITS - L)]
  ELSE LET sh   == L - MANT_BITS
           q    == BigShr(N, sh)
           r    == BigTrim([j \in 1..((sh \div LIMB_BITS) + 1) |->
                             IF j <= sh \div LIMB_BITS THEN N[j]
                             ELSE N[j] % Pow2(sh % LIMB_BITS)])
           c    == BigCmp(r, BigShl(<<1>>, sh - 1))
           up   == c > 0 \/ (c = 0 /\ BigOdd(q))
           q2   == IF up THEN BigAdd(q, <<1>>) ELSE q
       IN  IF BigBitLen(q2) > MANT_BITS
           THEN [s |-> s, m |-> BigShr(q2, 1), e |-> e + sh + 1]
           ELSE [s |-> s, m |-> q2, e |-> e + sh]

DIsZero(x) == x.m = <<>>

\* a non-negative integer below 2^31 as a double
DFromInt(n) == RoundBig(0, BigFromInt(n), 0)

DNeg(x) == IF DIsZero(x) THEN x ELSE [x EXCEPT !.s = 1 - x.s]

\* x + y (the operands are bound as values before they are added)
DAdd(x, y) ==
  CHOOSE sum \in
    {IF DIsZero(a) THEN b
     ELSE IF DIsZero(b) THEN a
     ELSE LET e == Min(a.e, b.e)
              X == BigShl(a.m, a.e - e)
              Y == BigShl(b.m, b.e - e)
              c == BigCmp(X, Y)
          IN  IF a.s = b.s THEN RoundBig(a.s, BigAdd(X, Y), e)
              ELSE IF c = 0 THEN DZero
              ELSE IF c > 0 THEN RoundBig(a.s, BigSub(X, Y), e)
              ELSE RoundBig(b.s, BigSub(Y, X), e) :
       a \in {x}, b \in {y}} : TRUE

\* x - y
DSub(x, y) == DAdd(x, DNeg(y))

\* x * y (the operands, and then their exact product, are bound as values)
DMul(x, y) ==
  CHOOSE product \in
    {IF DIsZero(a) \/ DIsZero(b) THEN DZero
     ELSE CHOOSE rounded \in
            {RoundBig((a.s + b.s) % 2, N, a.e + b.e) : N \in {BigMul(a.m, b.m)}} : TRUE :
       a \in {x}, b \in {y}} : TRUE

\* x / k for an integer 0 < k < BASE: the quotient is taken to 20 extra bits
\* and a sticky bit records a non-zero remainder
DDivInt(x, k) ==
  CHOOSE quotient \in
    {IF DIsZero(a) THEN DZero
     ELSE CHOOSE rounded \in
            {RoundBig(a.s, BigAdd(BigShl(d.q, 1), IF d.r = 0 THEN <<>> ELSE <<1>>),
                      a.e - 21) :
               d \in {BigDivSmall(BigShl(a.m, 20), k)}} : TRUE :
       a \in {x}} : TRUE

\* -1, 0, 1 as x <, =, > y
DCmpMag(x, y) ==
  IF DIsZero(x) /\ DIsZero(y) THEN 0
  ELSE IF DIsZero(x) THEN -1
  ELSE IF DIsZero(y) THEN 1
  ELSE IF x.e > y.e THEN 1
  ELSE IF x.e < y.e THEN -1
  ELSE BigCmp(x.m, y.m)

DCmp(x, y) ==
  IF x.s = 0 /\ y.s = 0 THEN DCmpMag(x, y)
  ELSE IF x.s = 1 /\ y.s = 1 THEN DCmpMag(y, x)
  ELSE IF DIsZero(x) /\ DIsZero(y) THEN 0
  ELSE IF x.s = 1 THEN -1 ELSE 1

DLess(x, y) == DCmp(x, y) < 0

\* 2^n as a double
DPow2(n) == RoundBig(0, <<1>>, n)

\* the integer part of the magnitude of x
DIntMag(x) == IF x.e >= 0 THEN BigShl(x.m, x.e) ELSE BigShr(x.m, -x.e)

\* a natural number below 2^31 as an integer
BigToInt(a) == Limb(a, 1) + BASE * Limb(a, 2) + BASE * BASE * Limb(a, 3)

\* the value of an integer-valued double of magnitude below 2^31
DToInt(x) == IF x.s = 1 THEN -BigToInt(DIntMag(x)) ELSE BigToInt(DIntMag(x))

(***************************************************************************)
(* JavaScript strings (sequences of UTF-16 code units) and objects.        *)
(***************************************************************************)
CH_ZERO == 48
CH_ONE == 49

\* String(n) for an integer 0 <= n < 2^31
NumToStr(n) ==
  LET digits == 1 + Cardinality({k \in 1..9 : 10^k <= n})
  IN  <<>> \o [j \in 1..digits |-> CH_ZERO + ((n \div 10^(digits - j)) % 10)]

\* n.toString(2) for an integer 0 <= n < 2^31
ToBinary(n) ==
  LET digits == Max(1, BitLenSmall(n))
  IN  <<>> \o [j \in 1..digits |-> CH_ZERO + ((n \div Pow2(digits - j)) % 2)]

\* ch.repeat(n)
Repeat(ch, n) == [j \in 1..n |-> ch]

\* s.padStart(width, ch)
PadStart(s, width, ch) ==
  IF Len(s) >= width THEN s ELSE Repeat(ch, width - Len(s)) \o s

\* s.startsWith(seq, i), i counted from 0
StartsWith(s, seq, i) ==
  /\ i + Len(seq) <= Len(s)
  /\ SubSeq(s, i + 1, i + Len(seq)) = seq

\* s[i] for 0 <= i < s.length
CharAt(s, i) == s[i + 1]

RECURSIVE Concat(_)
\* the strings of a list joined with nothing in between
Concat(list) ==
  IF list = <<>> THEN <<>>
  ELSE IF Len(list) = 1 THEN list[1]
  ELSE LET h == Len(list) \div 2
       IN  Concat(SubSeq(list, 1, h)) \o Concat(SubSeq(list, h + 1, Len(list)))

\* s < t in code-unit order, the order of Array.prototype.sort() on strings:
\* the first unit that differs decides, and a proper prefix comes first
StrLess(s, t) ==
  LET same == Cardinality({i \in 1..Min(Len(s), Len(t)) : \A j \in 1..i : s[j] = t[j]})
  IN  IF same = Min(Len(s), Len(t)) THEN Len(s) < Len(t)
      ELSE s[same + 1] < t[same + 1]

\* Array.prototype.sort with a comparator is stable: each element goes after
\* the elements that compare below it and after the equal ones that precede it
\* (lt[i, j] tells whether the comparator puts s[i] before s[j])
StableSort(s, lt) ==
  LET rank == [i \in 1..Len(s) |->
                 Cardinality({j \in 1..Len(s) :
                    lt[j, i] \/ (~lt[i, j] /\ j < i)}) + 1]
  IN  [r \in 1..Len(s) |-> s[CHOOSE i \in 1..Len(s) : rank[i] = r]]

\* An object with string keys: its own properties in creation order.
PROTO_KEY == <<95, 95, 112, 114, 111, 116, 111, 95, 95>>
HAS_OWN_PROPERTY_KEY == <<104, 97, 115, 79, 119, 110, 80, 114, 111, 112, 101, 114, 116, 121>>
MAX_ARRAY_INDEX == <<52, 50, 57, 52, 57, 54, 55, 50, 57, 52>>

\* hasOwnProperty(k)
ObjHas(o, k) == \E j \in 1..Len(o) : o[j].k = k

\* o[k] for an own property k
ObjGet(o, k) == o[CHOOSE j \in 1..Len(o) : o[j].k = k].v

\* o[k] for any key: <<v>> for an own property, <<>> for undefined (the keys
\* the encoders read are never names of Object.prototype)
ObjLookup(o, k) == IF ObjHas(o, k) THEN <<ObjGet(o, k)>> ELSE <<>>

\* o[k] = v; assigning a number or a string to "__proto__" goes to the
\* setter of Object.prototype, which ignores it
ObjSet(o, k, v) ==
  IF k = PROTO_KEY THEN o
  ELSE IF ObjHas(o, k)
  THEN [j \in 1..Len(o) |-> IF o[j].k = k THEN [k |-> k, v |-> v] ELSE o[j]]
  ELSE Append(o, [k |-> k, v |-> v])

\* canonical numeric strings compare as numbers
NumStrLess(a, b) == Len(a) < Len(b) \/ (Len(a) = Len(b) /\ StrLess(a, b))

\* a key that is an array index ("0", "1", ..., "4294967294")
IsArrayIndex(k) ==
  /\ Len(k) >= 1
  /\ \A j \in 1..Len(k) : k[j] >= CH_ZERO /\ k[j] <= CH_ZERO + 9
  /\ (Len(k) = 1 \/ k[1] # CH_ZERO)
  /\ ~NumStrLess(MAX_ARRAY_INDEX, k)

\* property order: array indices ascending, then the others as created
ObjEntryLess(a, b) ==
  \/ IsArrayIndex(a.k) /\ ~IsArrayIndex(b.k)
  \/ IsArrayIndex(a.k) /\ IsArrayIndex(b.k) /\ NumStrLess(a.k, b.k)

\* Object.entries(o)
ObjEntries(o) == StableSort(o, [i, j \in 1..Len(o) |-> ObjEntryLess(o[i], o[j])])

\* Object.keys(o)
ObjKeys(o) == LET en == ObjEntries(o) IN [j \in 1..Len(en) |-> en[j].k]

\* the code units of the surrogate ranges
HighSurrogates == 55296..56319
LowSurrogates == 56320..57343

\* the strings for (const char of s) visits: a high surrogate followed by a
\* low one is one symbol of two units, every other unit is a symbol
CodePoints(s) ==
  LET n == Len(s)
      second == [i \in 1..n |->
                   i > 1 /\ s[i] \in LowSurrogates /\ s[i - 1] \in HighSurrogates]
      rank == [i \in 1..n |-> Cardinality({j \in 1..i : ~second[j]})]
      at == [r \in 1..(IF n = 0 THEN 0 ELSE rank[n]) |->
               CHOOSE i \in 1..n : ~second[i] /\ rank[i] = r]
  IN  [r \in DOMAIN at |->
         IF at[r] < n /\ second[at[r] + 1] THEN <<s[at[r]], s[at[r] + 1]>>
         ELSE <<s[at[r]]>>]

\* one property per distinct element of a list of symbols, created at its
\* first occurrence and holding its number of occurrences
CountList(cps) ==
  LET firsts == {i \in 1..Len(cps) : \A j \in 1..(i - 1) : cps[j] # cps[i]}
      at(r) == CHOOSE i \in firsts : Cardinality({j \in firsts : j < i}) = r - 1
  IN  [r \in 1..Cardinality(firsts) |->
         [k |-> cps[at(r)],
          v |-> Cardinality({j \in 1..Len(cps) : cps[j] = cps[at(r)]})]]

\* const freqs = {}; for (const char of s) freqs[char] = (freqs[char] || 0) + 1
\* (the symbols are bound as one value, so that they are worked out once)
CountChars(s) == CHOOSE freqs \in {CountList(cps) : cps \in {CodePoints(s)}} : TRUE

(***************************************************************************)
(* The result every encoder returns.                                       *)
(***************************************************************************)
\* input.length * 8
BITS_PER_CHAR == 8

\* (1 - compressedSize / originalSize) * 100, the quotient first
Ratio(compressedSize, originalSize) ==
  CHOOSE ratio \in
    {DMul(saved, DFromInt(100)) :
       saved \in {DSub(DFromInt(1), part) :
                    part \in {DDivInt(DFromInt(compressedSize), originalSize)}}} : TRUE

\* the short-circuit result with the ratio of a full saving
EmptyResultFullRatio ==
  [encoded |-> <<>>, originalSize |-> 0, compressedSize |-> 0, ratio |-> DFromInt(100),
   steps |-> <<>>]

\* { encoded: '', originalSize: 0, compressedSize: 0, ratio: 0, steps: [] }
EmptyResult ==
  [encoded |-> <<>>, originalSize |-> 0, compressedSize |-> 0, ratio |-> DZero,
   steps |-> <<>>]

(***************************************************************************)
(* Inputs.                                                                 *)
(***************************************************************************)
MaxLen == 3
\* "1", "A" and the Greek capital omega
Alphabet == {49, 65, 937}

SCENARIO_HUFFMAN == <<107, 101, 115, 101, 32, 115, 101, 110, 101, 32, 107, 101, 107, 101, 32, 101, 107, 108, 101>>
SCENARIO_RLE == <<65, 65, 65, 65, 65, 65, 65, 66, 66, 66, 67, 67, 68, 68, 68, 68, 68, 68, 69, 69, 69>>
SCENARIO_GOLOMB == <<52, 50, 44, 32, 49, 48, 44, 32, 53, 44, 32, 48, 44, 32, 49, 50, 44, 32, 53, 53>>
SCENARIO_LZW == <<116, 97, 107, 97, 32, 116, 117, 107, 97, 32, 116, 97, 107, 97, 32, 116, 117, 107, 97, 32, 116, 97, 107, 97, 32, 116, 117, 107, 97, 32, 116, 97, 107, 97, 32, 116, 117, 107, 97, 32, 116, 97, 107, 97, 32, 116, 117, 107, 97>>
SCENARIO_ARITHMETIC == <<66, 65, 66, 65>>
SCENARIO_TUNSTALL == <<65, 65, 65, 66, 65, 65, 65, 67, 65, 65, 65, 68, 65, 65, 65, 65>>

Scenarios ==
  {SCENARIO_HUFFMAN, SCENARIO_RLE, SCENARIO_GOLOMB, SCENARIO_LZW,
   SCENARIO_ARITHMETIC, SCENARIO_TUNSTALL}

\* "a__b__pc__prd__proe__protf__protog__proto_h__proto__i__proto__j": LZW comes
\* to insert the key "__proto__", twice
INPUT_PROTO == <<97, 95, 95, 98, 95, 95, 112, 99, 95, 95, 112, 114, 100, 95, 95, 112, 114, 111, 101, 95, 95, 112, 114, 111, 116, 102, 95, 95, 112, 114, 111, 116, 111, 103, 95, 95, 112, 114, 111, 116, 111, 95, 104, 95, 95, 112, 114, 111, 116, 111, 95, 95, 105, 95, 95, 112, 114, 111, 116, 111, 95, 95, 106>>

\* "AhaBhasChasOD...LhasOwnPropertMhasOwnPropertyZ": LZW comes to insert the key
\* "hasOwnProperty"; the input has 27 distinct symbols
INPUT_SHADOW == <<65, 104, 97, 66, 104, 97, 115, 67, 104, 97, 115, 79, 68, 104, 97, 115, 79, 119, 69, 104, 97, 115, 79, 119, 110, 70, 104, 97, 115, 79, 119, 110, 80, 71, 104, 97, 115, 79, 119, 110, 80, 114, 72, 104, 97, 115, 79, 119, 110, 80, 114, 111, 73, 104, 97, 115, 79, 119, 110, 80, 114, 111, 112, 74, 104, 97, 115, 79, 119, 110, 80, 114, 111, 112, 101, 75, 104, 97, 115, 79, 119, 110, 80, 114, 111, 112, 101, 114, 76, 104, 97, 115, 79, 119, 110, 80, 114, 111, 112, 101, 114, 116, 77, 104, 97, 115, 79, 119, 110, 80, 114, 111, 112, 101, 114, 116, 121, 90>>

\* "ONMLKJIHGFEDCBA": fifteen distinct symbols
INPUT_DISTINCT15 == <<79, 78, 77, 76, 75, 74, 73, 72, 71, 70, 69, 68, 67, 66, 65>>

\* "ABCDEFGHIJKLMNOPQ": seventeen distinct symbols
INPUT_DISTINCT17 == <<65, 66, 67, 68, 69, 70, 71, 72, 73, 74, 75, 76, 77, 78, 79, 80, 81>>

\* "10", "-3,7", " 5 ", "0x1A,+2", "-0", ",": number lists for compressGolomb
INPUT_TEN == <<49, 48>>
INPUT_NEGATIVE == <<45, 51, 44, 55>>
INPUT_PADDED == <<32, 53, 32>>
INPUT_HEX == <<48, 120, 49, 65, 44, 43, 50>>
INPUT_MINUS_ZERO == <<45, 48>>
INPUT_COMMA == <<44>>

\* "a" followed by U+1F600, a surrogate pair: three units, two symbols
INPUT_ASTRAL == <<97, 55357, 56832>>

Crafted ==
  {INPUT_PROTO, INPUT_SHADOW, INPUT_DISTINCT15, INPUT_DISTINCT17, INPUT_TEN, INPUT_NEGATIVE,
   INPUT_PADDED, INPUT_HEX, INPUT_MINUS_ZERO, INPUT_COMMA, INPUT_ASTRAL}

\* every string of at most MaxLen symbols of Alphabet, the empty one included
TextInputs == UNION {[1..k -> Alphabet] : k \in 0..MaxLen}

Inputs == TextInputs \cup Scenarios \cup Crafted

\* alg, input, mParam, pc, loc and result are the call of an encoder in
\* progress; activeTab, golombM and appResult are the state of the App
\* component (appResult is <<>> for null and <<r>> for the result r, input is
\* shared with the call), effect is the position of its recompute effect and
\* resultFrom records the call that appResult came from
VARIABLES alg, input, mParam, pc, loc, result,
          activeTab, golombM, appResult, effect, resultFrom

appVars == <<activeTab, golombM, appResult, effect, resultFrom>>

vars == <<alg, input, mParam, pc, loc, result, appVars>>

DEFAULT_M == 4

\* useState(AlgorithmType.HUFFMAN), useState(4), useState(null), and the
\* effect that runs after the first render
AppMounted ==
  /\ activeTab = "HUFFMAN"
  /\ golombM = DFromInt(DEFAULT_M)
  /\ appResult = <<>>
  /\ effect = "pending"
  /\ resultFrom = <<>>

Init ==
  /\ alg = NULL
  /\ input \in Inputs
  /\ mParam = DFromInt(DEFAULT_M)
  /\ pc = "idle"
  /\ loc = <<>>
  /\ result = NULL
  /\ AppMounted

(***************************************************************************)
(* compressRLE                                                             *)
(***************************************************************************)
RLE_BITS_PER_RUN == 16

\* `${count}${input[i]}`
RLECode(count, ch) == NumToStr(count) \o <<ch>>

\* the loop with the count carried over into the next run
RLEBodyNoReset(in, l) ==
  IF l.i < Len(in) - 1 /\ CharAt(in, l.i) = CharAt(in, l.i + 1)
  THEN [l EXCEPT !.count = l.count + 1, !.i = l.i + 1]
  ELSE [l EXCEPT !.encoded = l.encoded \o RLECode(l.count, CharAt(in, l.i)),
                 !.steps = Append(l.steps, [char |-> CharAt(in, l.i), count |-> l.count,
                                            code |-> RLECode(l.count, CharAt(in, l.i))]),
                 !.i = l.i + 1]

\* the loop with the count left out of the step's code
RLEBodyBareStep(in, l) ==
  IF l.i < Len(in) - 1 /\ CharAt(in, l.i) = CharAt(in, l.i + 1)
  THEN [l EXCEPT !.count = l.count + 1, !.i = l.i + 1]
  ELSE [l EXCEPT !.encoded = l.encoded \o RLECode(l.count, CharAt(in, l.i)),
                 !.steps = Append(l.steps, [char |-> CharAt(in, l.i), count |-> l.count,
                                            code |-> <<CharAt(in, l.i)>>]),
                 !.count = 1,
                 !.i = l.i + 1]

\* one iteration of the for loop, i++ included
RLEBody(in, l) ==
  IF l.i < Len(in) - 1 /\ CharAt(in, l.i) = CharAt(in, l.i + 1)
  THEN [l EXCEPT !.count = l.count + 1, !.i = l.i + 1]
  ELSE [l EXCEPT !.encoded = l.encoded \o RLECode(l.count, CharAt(in, l.i)),
                 !.steps = Append(l.steps, [char |-> CharAt(in, l.i), count |-> l.count,
                                            code |-> RLECode(l.count, CharAt(in, l.i))]),
                 !.count = 1,
                 !.i = l.i + 1]

RLEResult(in, l) ==
  LET originalSize == Len(in) * BITS_PER_CHAR
      compressedSize == Len(l.steps) * RLE_BITS_PER_RUN
  IN  [encoded |-> l.encoded, originalSize |-> originalSize,
       compressedSize |-> compressedSize,
       ratio |-> Ratio(compressedSize, originalSize), steps |-> l.steps]

CallRLE ==
  /\ pc = "idle"
  /\ alg' = "RLE"
  /\ IF input = <<>>
     THEN /\ result' = EmptyResult
          /\ pc' = "done"
          /\ loc' = loc
     ELSE /\ loc' = [encoded |-> <<>>, steps |-> <<>>, count |-> 1, i |-> 0]
          /\ pc' = "rle_for"
          /\ result' = result
  /\ UNCHANGED <<input, mParam>>
  /\ UNCHANGED appVars

RLEFor ==
  /\ pc = "rle_for"
  /\ loc.i < Len(input)
  /\ loc' = RLEBody(input, loc)
  /\ UNCHANGED <<alg, input, mParam, pc, result>>
  /\ UNCHANGED appVars

RLEReturn ==
  /\ pc = "rle_for"
  /\ ~(loc.i < Len(input))
  /\ result' = RLEResult(input, loc)
  /\ pc' = "done"
  /\ UNCHANGED <<alg, input, mParam, loc>>
  /\ UNCHANGED appVars

NextRLE == CallRLE \/ RLEFor \/ RLEReturn

SpecRLE == Init /\ [][NextRLE]_vars

(***************************************************************************)
(* compressHuffman                                                         *)
(*                                                                         *)
(* A HuffmanNode is a record; char is the symbol as a one-unit string, or  *)
(* NO_CHAR for null (a symbol is never the empty string); left and right   *)
(* hold <<child>>, or <<>> for undefined.                                  *)
(***************************************************************************)
NO_CHAR == <<>>
STR_LEAF == <<108, 101, 97, 102, 45>>
STR_INTERNAL == <<105, 110, 116, 101, 114, 110, 97, 108, 45>>
STR_DASH == <<45>>

\* Object.entries(freqs).map(([char, freq], idx) => ({ char, freq, id }))
HuffmanLeaves(freqs) ==
  LET en == ObjEntries(freqs)
  IN  [j \in 1..Len(en) |->
         [char |-> en[j].k, freq |-> en[j].v, left |-> <<>>, right |-> <<>>,
          id |-> STR_LEAF \o en[j].k \o STR_DASH \o NumToStr(j - 1)]]

\* the comparator with its operands exchanged
NodeLessDescending(a, b) == b.freq < a.freq

\* the comparator (a, b) => a.freq - b.freq
NodeLess(a, b) == a.freq < b.freq

\* one iteration of while (nodes.length > 1)
HuffmanMergeBody(l) ==
  LET ns == l.nodes
      sorted == StableSort(ns, [i, j \in 1..Len(ns) |-> NodeLess(ns[i], ns[j])])
      left == sorted[1]
      right == sorted[2]
      newNode == [char |-> NO_CHAR, freq |-> left.freq + right.freq,
                  left |-> <<left>>, right |-> <<right>>,
                  id |-> STR_INTERNAL \o NumToStr(l.internalIdCounter)]
  IN  [l EXCEPT !.nodes = Append(SubSeq(sorted, 3, Len(sorted)), newNode),
                !.internalIdCounter = l.internalIdCounter + 1]

RECURSIVE GenerateCodesSameBit(_, _, _)
\* the walk with "0" appended on both branches
GenerateCodesSameBit(node, code, codes) ==
  IF node = <<>> THEN codes
  ELSE IF node[1].char # NO_CHAR THEN ObjSet(codes, node[1].char, code)
  ELSE CHOOSE done \in
         {GenerateCodesSameBit(node[1].right, code \o <<CH_ZERO>>, left) :
            left \in {GenerateCodesSameBit(node[1].left, code \o <<CH_ZERO>>, codes)}} : TRUE

RECURSIVE GenerateCodes(_, _, _)
\* generateCodes(node, code), as the codes object it leaves behind (the left
\* subtree is walked first, and its codes are bound as one value before the
\* right subtree is walked)
GenerateCodes(node, code, codes) ==
  IF node = <<>> THEN codes
  ELSE IF node[1].char # NO_CHAR THEN ObjSet(codes, node[1].char, code)
  ELSE CHOOSE done \in
         {GenerateCodes(node[1].right, code \o <<CH_ONE>>, left) :
            left \in {GenerateCodes(node[1].left, code \o <<CH_ZERO>>, codes)}} : TRUE

\* Object.entries(codes).map(([char, code]) => ({ char, code, freq: freqs[char] }))
HuffmanSteps(codes, freqs) ==
  LET en == ObjEntries(codes)
  IN  [j \in 1..Len(en) |->
         [char |-> en[j].k, code |-> en[j].v, freq |-> ObjGet(freqs, en[j].k)]]

HuffmanResult(in, l) ==
  LET originalSize == Len(in) * BITS_PER_CHAR
      compressedSize == Len(l.encoded)
  IN  [encoded |-> l.encoded, originalSize |-> originalSize,
       compressedSize |-> compressedSize,
       ratio |-> Ratio(compressedSize, originalSize),
       steps |-> HuffmanSteps(l.codes, l.freqs),
       tree |-> l.root, dictionary |-> l.codes]

CallHuffman ==
  /\ pc = "idle"
  /\ alg' = "HUFFMAN"
  /\ IF input = <<>>
     THEN /\ result' = EmptyResult
          /\ pc' = "done"
          /\ loc' = loc
     ELSE /\ \E freqs \in {CountChars(input)} :
               \E nodes \in {HuffmanLeaves(freqs)} :
                 IF Len(nodes) = 1
                 THEN /\ loc' = [freqs |-> freqs, nodes |-> nodes,
                                 codes |-> ObjSet(<<>>, nodes[1].char, <<CH_ZERO>>),
                                 root |-> <<nodes[1]>>, internalIdCounter |-> 0,
                                 symbols |-> CodePoints(input),
                                 encoded |-> <<>>, i |-> 0]
                      /\ pc' = "huffman_encode"
                 ELSE /\ loc' = [freqs |-> freqs, nodes |-> nodes, codes |-> <<>>,
                                 root |-> <<>>, internalIdCounter |-> 0,
                                 symbols |-> CodePoints(input),
                                 encoded |-> <<>>, i |-> 0]
                      /\ pc' = "huffman_while"
          /\ result' = result
  /\ UNCHANGED <<input, mParam>>
  /\ UNCHANGED appVars

HuffmanMerge ==
  /\ pc = "huffman_while"
  /\ Len(loc.nodes) > 1
  /\ loc' = HuffmanMergeBody(loc)
  /\ UNCHANGED <<alg, input, mParam, pc, result>>
  /\ UNCHANGED appVars

\* root = nodes[0]; generateCodes(root, "")
HuffmanGenerate ==
  /\ pc = "huffman_while"
  /\ ~(Len(loc.nodes) > 1)
  /\ loc' = [loc EXCEPT !.root = <<loc.nodes[1]>>,
                        !.codes = GenerateCodes(<<loc.nodes[1]>>, <<>>, loc.codes)]
  /\ pc' = "huffman_encode"
  /\ UNCHANGED <<alg, input, mParam, result>>
  /\ UNCHANGED appVars

\* for (const char of input) encoded += codes[char]
HuffmanEncode ==
  /\ pc = "huffman_encode"
  /\ loc.i < Len(loc.symbols)
  /\ loc' = [loc EXCEPT !.encoded = loc.encoded \o ObjGet(loc.codes, loc.symbols[loc.i + 1]),
                        !.i = loc.i + 1]
  /\ UNCHANGED <<alg, input, mParam, pc, result>>
  /\ UNCHANGED appVars

HuffmanReturn ==
  /\ pc = "huffman_encode"
  /\ ~(loc.i < Len(loc.symbols))
  /\ result' = HuffmanResult(input, loc)
  /\ pc' = "done"
  /\ UNCHANGED <<alg, input, mParam, loc>>
  /\ UNCHANGED appVars

NextHuffman ==
  CallHuffman \/ HuffmanMerge \/ HuffmanGenerate \/ HuffmanEncode \/ HuffmanReturn

SpecHuffman == Init /\ [][NextHuffman]_vars

(***************************************************************************)
(* compressLZW                                                             *)
(*                                                                         *)
(* A value read from the dictionary is <<code>>, or <<>> for undefined.    *)
(***************************************************************************)
LZW_SEED_SIZE == 256
LZW_BITS_PER_CODE == 12
CH_SPACE == 32
STR_EOF == <<69, 79, 70>>

\* for (let i = 0; i < 256; i++) dictionary[String.fromCharCode(i)] = i
LZWSeed == [j \in 1..LZW_SEED_SIZE |-> [k |-> <<j - 1>>, v |-> j - 1]]

\* dictionary.hasOwnProperty is the method of Object.prototype unless the
\* dictionary has an own property of that name, which is a number
LZWCanCallHasOwnProperty(dictionary) == ~ObjHas(dictionary, HAS_OWN_PROPERTY_KEY)

\* the loop with the insertion into the dictionary left out
LZWBodyNoInsert(in, l) ==
  LET c == <<CharAt(in, l.i)>>
      wc == l.w \o c
  IN  IF ObjHas(l.dictionary, wc)
      THEN [l EXCEPT !.w = wc, !.i = l.i + 1]
      ELSE [l EXCEPT !.result = Append(l.result, ObjLookup(l.dictionary, l.w)),
                     !.steps = Append(l.steps,
                                 [step |-> Len(l.steps) + 1, w |-> l.w, k |-> c,
                                  output |-> ObjLookup(l.dictionary, l.w),
                                  addedToDict |-> wc, newCode |-> l.dictSize]),
                     !.dictSize = l.dictSize + 1,
                     !.w = c,
                     !.i = l.i + 1]

\* one iteration of the for loop, i++ included
LZWBody(in, l) ==
  LET c == <<CharAt(in, l.i)>>
      wc == l.w \o c
  IN  IF ObjHas(l.dictionary, wc)
      THEN [l EXCEPT !.w = wc, !.i = l.i + 1]
      ELSE [l EXCEPT !.result = Append(l.result, ObjLookup(l.dictionary, l.w)),
                     !.steps = Append(l.steps,
                                 [step |-> Len(l.steps) + 1, w |-> l.w, k |-> c,
                                  output |-> ObjLookup(l.dictionary, l.w),
                                  addedToDict |-> wc, newCode |-> l.dictSize]),
                     !.dictionary = ObjSet(l.dictionary, wc, l.dictSize),
                     !.dictSize = l.dictSize + 1,
                     !.w = c,
                     !.i = l.i + 1]

\* if (w !== "") { result.push(dictionary[w]); steps.push({...}) }
LZWFlush(l) ==
  IF l.w # <<>>
  THEN [l EXCEPT !.result = Append(l.result, ObjLookup(l.dictionary, l.w)),
                 !.steps = Append(l.steps,
                             [step |-> Len(l.steps) + 1, w |-> l.w, k |-> STR_EOF,
                              output |-> ObjLookup(l.dictionary, l.w),
                              addedToDict |-> STR_DASH, newCode |-> STR_DASH])]
  ELSE l

\* result.join(" "): an undefined element is joined as the empty string
JoinCodes(codes) ==
  Concat([j \in 1..Len(codes) |->
            (IF j > 1 THEN <<CH_SPACE>> ELSE <<>>)
            \o (IF codes[j] = <<>> THEN <<>> ELSE NumToStr(codes[j][1]))])

LZWResult(in, l) ==
  LET originalSize == Len(in) * BITS_PER_CHAR
      compressedSize == Len(l.result) * LZW_BITS_PER_CODE
  IN  [encoded |-> JoinCodes(l.result), originalSize |-> originalSize,
       compressedSize |-> compressedSize,
       ratio |-> Ratio(compressedSize, originalSize), steps |-> l.steps]

CallLZW ==
  /\ pc = "idle"
  /\ alg' = "LZW"
  /\ IF input = <<>>
     THEN /\ result' = EmptyResult
          /\ pc' = "done"
          /\ loc' = loc
     ELSE /\ loc' = [dictionary |-> LZWSeed, w |-> <<>>, result |-> <<>>,
                     steps |-> <<>>, dictSize |-> LZW_SEED_SIZE, i |-> 0]
          /\ pc' = "lzw_for"
          /\ result' = result
  /\ UNCHANGED <<input, mParam>>
  /\ UNCHANGED appVars

LZWFor ==
  /\ pc = "lzw_for"
  /\ loc.i < Len(input)
  /\ LZWCanCallHasOwnProperty(loc.dictionary)
  /\ loc' = LZWBody(input, loc)
  /\ UNCHANGED <<alg, input, mParam, pc, result>>
  /\ UNCHANGED appVars

\* TypeError: dictionary.hasOwnProperty is not a function
LZWThrow ==
  /\ pc = "lzw_for"
  /\ loc.i < Len(input)
  /\ ~LZWCanCallHasOwnProperty(loc.dictionary)
  /\ pc' = "threw"
  /\ UNCHANGED <<alg, input, mParam, loc, result>>
  /\ UNCHANGED appVars

LZWReturn ==
  /\ pc = "lzw_for"
  /\ ~(loc.i < Len(input))
  /\ loc' = LZWFlush(loc)
  /\ result' = LZWResult(input, loc')
  /\ pc' = "done"
  /\ UNCHANGED <<alg, input, mParam>>
  /\ UNCHANGED appVars

NextLZW == CallLZW \/ LZWFor \/ LZWThrow \/ LZWReturn

SpecLZW == Init /\ [][NextLZW]_vars

(***************************************************************************)
(* compressGolomb                                                          *)
(***************************************************************************)
GOLOMB_BITS_PER_NUMBER == 32
CH_COMMA == 44
CH_PLUS == 43
CH_MINUS == 45
MaxM == 9

\* an mParam just above a power of two that Math.log2 maps to the exponent
LARGE_M == DAdd(DPow2(MANT_BITS - 1), DFromInt(1))

\* the mParam values a call is made with (the default is DEFAULT_M)
MParams == {DFromInt(m) : m \in 0..MaxM} \cup {LARGE_M}

\* the characters \s matches
WhiteSpace ==
  {9, 10, 11, 12, 13, 32, 160, 5760, 8232, 8233, 8239, 8287, 12288, 65279}
  \cup (8192..8202)

\* the characters [\s,] matches
IsSeparator(c) == c = CH_COMMA \/ c \in WhiteSpace

\* inputStr.split(/[\s,]+/): the maximal runs of other characters, with an
\* empty string in front when the input starts with a separator (or is empty)
\* and one at the end when it ends with a separator
Split(str) ==
  LET n == Len(str)
      starts == {i \in 1..n : ~IsSeparator(str[i]) /\ (i = 1 \/ IsSeparator(str[i - 1]))}
      startOf(r) == CHOOSE i \in starts : Cardinality({j \in starts : j < i}) = r - 1
      endOf(i) == CHOOSE j \in i..n :
                    /\ \A x \in i..j : ~IsSeparator(str[x])
                    /\ (j = n \/ IsSeparator(str[j + 1]))
      runs == [r \in 1..Cardinality(starts) |-> SubSeq(str, startOf(r), endOf(startOf(r)))]
      lead == IF n = 0 \/ IsSeparator(str[1]) THEN <<(<<>>)>> ELSE <<>>
      trail == IF n > 0 /\ IsSeparator(str[n]) THEN <<(<<>>)>> ELSE <<>>
  IN  lead \o runs \o trail

\* the value of a digit of the given radix, or -1
DigitValue(c, radix) ==
  LET v == IF c >= 48 /\ c <= 57 THEN c - 48
           ELSE IF c >= 97 /\ c <= 122 THEN c - 97 + 10
           ELSE IF c >= 65 /\ c <= 90 THEN c - 65 + 10
           ELSE -1
  IN  IF v < radix THEN v ELSE -1

RECURSIVE DigitsValueFrom(_, _, _, _)
\* the number written by the acc.j digits read so far followed by ds[acc.j + 1..n]
DigitsValueFrom(ds, n, radix, acc) ==
  IF acc.j = n THEN acc.val
  ELSE DigitsValueFrom(ds, n, radix,
         [j |-> acc.j + 1, val |-> acc.val * radix + DigitValue(ds[acc.j + 1], radix)])

\* the number written by the digits ds[1..n]
DigitsValue(ds, n, radix) == DigitsValueFrom(ds, n, radix, [j |-> 0, val |-> 0])

\* parseInt(tok) for a token without white space: an optional sign, an
\* optional 0x or 0X, then the longest run of digits; [nan, neg, val]
ParseInt(tok) ==
  LET signed == tok # <<>> /\ tok[1] \in {CH_PLUS, CH_MINUS}
      neg == tok # <<>> /\ tok[1] = CH_MINUS
      body == IF signed THEN Tail(tok) ELSE tok
      hex == Len(body) >= 2 /\ body[1] = CH_ZERO /\ body[2] \in {120, 88}
      radix == IF hex THEN 16 ELSE 10
      ds == IF hex THEN SubSeq(body, 3, Len(body)) ELSE body
      k == Cardinality({j \in 1..Len(ds) : \A x \in 1..j : DigitValue(ds[x], radix) >= 0})
  IN  IF k = 0 THEN [nan |-> TRUE, neg |-> neg, val |-> 0]
      ELSE [nan |-> FALSE, neg |-> neg, val |-> DigitsValue(ds, k, radix)]

\* .map(n => parseInt(n)).filter(n => !isNaN(n) && n >= 0); -0 counts as 0
GolombNumbers(inputStr) ==
  LET parsed == [j \in 1..Len(Split(inputStr)) |-> ParseInt(Split(inputStr)[j])]
      kept(p) == ~p.nan /\ (~p.neg \/ p.val = 0)
      keep == {j \in 1..Len(parsed) : kept(parsed[j])}
      at(r) == CHOOSE j \in keep : Cardinality({x \in keep : x < j}) = r - 1
  IN  [r \in 1..Cardinality(keep) |-> parsed[at(r)].val]

\* Math.ceil(Math.log2(M)) for an integer-valued double M >= 1, which is
\* 2^k + d with 0 <= d < 2^k.  Math.log2 gives the double nearest to
\* k + log2(1 + d/2^k), and log2(1 + x) < 3x/2: the result is k itself, not
\* above it, when 3d/2^(k+1) is at most half an ulp of k (no M of MParams
\* lies between that and the exact rounding boundary)
CeilLog2(M) ==
  LET N == DIntMag(M)
      k == BigBitLen(N) - 1
      d == BigSub(N, BigShl(<<1>>, k))
      toK == BigCmp(BigShl(BigMulSmall(d, 3), MANT_BITS + 1 - BitLenSmall(k)),
                    BigShl(<<1>>, k + 1)) <= 0
  IN  IF d = <<>> \/ toK THEN k ELSE k + 1

\* Math.max(1, Math.floor(mParam)) for an integer-valued mParam
GolombM(m) == IF DLess(m, DFromInt(1)) THEN DFromInt(1) ELSE m

\* the cutoff taken as half of M
GolombCutoffHalf(M, b) == RoundBig(0, BigShr(DIntMag(M), 1), 0)

\* Math.pow(2, b) - M
GolombCutoff(M, b) == DSub(DPow2(b), M)

\* Math.floor(n / M) for an integer 0 <= n < 2^31
GolombQuotient(n, M) == IF DLess(DFromInt(n), M) THEN 0 ELSE n \div DToInt(M)

\* n % M for an integer 0 <= n < 2^31
GolombRemainder(n, M) == IF DLess(DFromInt(n), M) THEN n ELSE n % DToInt(M)

\* the unary part without its terminating zero
GolombUnaryNoStop(q) == Repeat(CH_ONE, q)

\* "1".repeat(q) + "0"
GolombUnary(q) == Repeat(CH_ONE, q) \o <<CH_ZERO>>

\* the binary digits of a natural number, most significant first ("" for 0)
BigToBinary(a) ==
  LET bit(i) == (a[(i \div LIMB_BITS) + 1] \div Pow2(i % LIMB_BITS)) % 2
  IN  <<>> \o [j \in 1..BigBitLen(a) |-> CH_ZERO + bit(BigBitLen(a) - j)]

\* x.toString(2) for an integer-valued double x: a minus sign in front of
\* the digits of a negative value
DToBinary(x) ==
  IF DIsZero(x) THEN <<CH_ZERO>>
  ELSE (IF x.s = 1 THEN <<CH_MINUS>> ELSE <<>>) \o BigToBinary(DIntMag(x))

\* the truncated binary code of the remainder
GolombBinary(M, b, cutoff, r) ==
  IF DCmp(M, DFromInt(1)) = 0 THEN <<>>
  ELSE IF DLess(DFromInt(r), cutoff) THEN PadStart(ToBinary(r), b - 1, CH_ZERO)
  ELSE PadStart(DToBinary(DAdd(DFromInt(r), cutoff)), b, CH_ZERO)

\* one iteration of for (const n of numbers)
GolombBody(l) ==
  LET n == l.numbers[l.i + 1]
      q == GolombQuotient(n, l.M)
      r == GolombRemainder(n, l.M)
      unary == GolombUnary(q)
      binary == GolombBinary(l.M, l.b, l.cutoff, r)
  IN  [l EXCEPT !.encodedStream = l.encodedStream \o unary \o binary,
                !.steps = Append(l.steps, [number |-> n, q |-> q, r |-> r, unary |-> unary,
                                           binary |-> binary, code |-> unary \o binary]),
                !.i = l.i + 1]

GolombResult(l) ==
  LET originalSize == Len(l.numbers) * GOLOMB_BITS_PER_NUMBER
      compressedSize == Len(l.encodedStream)
  IN  [encoded |-> l.encodedStream, originalSize |-> originalSize,
       compressedSize |-> compressedSize,
       ratio |-> Ratio(compressedSize, originalSize), steps |-> l.steps]

\* compressGolomb(inputStr, m) up to the loop (numbers, M and b are bound as
\* values in the order the code computes them)
GolombEnter(m) ==
  /\ pc = "idle"
  /\ alg' = "GOLOMB"
  /\ mParam' = m
  /\ \E numbers \in {GolombNumbers(input)} : \E M \in {GolombM(m)} :
       \E b \in {CeilLog2(M)} :
         IF Len(numbers) = 0
         THEN /\ result' = EmptyResult
              /\ pc' = "done"
              /\ loc' = loc
         ELSE /\ loc' = [numbers |-> numbers, M |-> M, b |-> b,
                         cutoff |-> GolombCutoff(M, b), encodedStream |-> <<>>,
                         steps |-> <<>>, i |-> 0]
              /\ pc' = "golomb_for"
              /\ result' = result
  /\ UNCHANGED input
  /\ UNCHANGED appVars

CallGolomb == \E m \in MParams : GolombEnter(m)

GolombFor ==
  /\ pc = "golomb_for"
  /\ loc.i < Len(loc.numbers)
  /\ loc' = GolombBody(loc)
  /\ UNCHANGED <<alg, input, mParam, pc, result>>
  /\ UNCHANGED appVars

GolombReturn ==
  /\ pc = "golomb_for"
  /\ ~(loc.i < Len(loc.numbers))
  /\ result' = GolombResult(loc)
  /\ pc' = "done"
  /\ UNCHANGED <<alg, input, mParam, loc>>
  /\ UNCHANGED appVars

NextGolomb == CallGolomb \/ GolombFor \/ GolombReturn

SpecGolomb == Init /\ [][NextGolomb]_vars

(***************************************************************************)
(* compressArithmetic                                                      *)
(***************************************************************************)
ARITH_SAFE_LENGTH == 15
ARITH_TAG_DIGITS == 10
ARITH_RANGE_DIGITS == 6
CH_DOT == 46
STR_ELLIPSIS == <<46, 46, 46>>

\* x.toFixed(f) for a double x >= 0: the integer n nearest to x * 10^f (the
\* larger one when two are as near), written with f digits after the point
ToFixedInt(x, f) ==
  LET num == BigMulPow10(x.m, f)
  IN  IF DIsZero(x) THEN <<>>
      ELSE IF x.e >= 0 THEN BigShl(num, x.e)
      ELSE BigShr(BigAdd(num, BigShl(<<1>>, (-x.e) - 1)), -x.e)

ToFixed(x, f) ==
  CHOOSE str \in
    {LET padded == [j \in 1..Max(Len(ds), f + 1) |->
                      IF j <= Max(Len(ds), f + 1) - Len(ds) THEN CH_ZERO
                      ELSE CH_ZERO + ds[j - (Max(Len(ds), f + 1) - Len(ds))]]
     IN  SubSeq(padded, 1, Len(padded) - f) \o <<CH_DOT>>
         \o SubSeq(padded, Len(padded) - f + 1, Len(padded)) :
       ds \in {BigDigits(ToFixedInt(x, f))}} : TRUE

\* input.slice(0, 15)
SafeInput(in) == SubSeq(in, 1, Min(Len(in), ARITH_SAFE_LENGTH))

\* Object.keys(freqs).sort()
SortedChars(freqs) ==
  LET ks == ObjKeys(freqs)
  IN  StableSort(ks, [i, j \in 1..Len(ks) |-> StrLess(ks[i], ks[j])])

RECURSIVE ArithProbsFrom(_, _, _, _)
\* for (const char of sortedChars) { p = freqs[char] / n; probs[char] = ...;
\* currentStart += p }, from the acc.j-th symbol on, with the currentStart
\* and the probs the symbols before it have left
ArithProbsFrom(sortedChars, freqs, n, acc) ==
  IF acc.j > Len(sortedChars) THEN acc.probs
  ELSE LET char == sortedChars[acc.j]
           p == DDivInt(DFromInt(ObjGet(freqs, char)), n)
           end == DAdd(acc.currentStart, p)
       IN  ArithProbsFrom(sortedChars, freqs, n,
             [j |-> acc.j + 1, currentStart |-> end,
              probs |-> ObjSet(acc.probs, char,
                               [start |-> acc.currentStart, end |-> end, p |-> p])])

ArithProbs(safeInput) ==
  ArithProbsFrom(SortedChars(CountChars(safeInput)), CountChars(safeInput),
                 Len(safeInput), [j |-> 1, currentStart |-> DZero, probs |-> <<>>])

\* `[${newLow.toFixed(6)}, ${newHigh.toFixed(6)})`
RangeStr(newLow, newHigh) ==
  <<91>> \o ToFixed(newLow, ARITH_RANGE_DIGITS) \o <<CH_COMMA, CH_SPACE>>
  \o ToFixed(newHigh, ARITH_RANGE_DIGITS) \o <<41>>

\* one iteration of for (const char of safeInput)
ArithBody(l) ==
  LET char == CodePoints(l.safeInput)[l.i + 1]
      range == DSub(l.high, l.low)
      newHigh == DAdd(l.low, DMul(range, ObjGet(l.probs, char).end))
      newLow == DAdd(l.low, DMul(range, ObjGet(l.probs, char).start))
  IN  [l EXCEPT !.rangeSteps = Append(l.rangeSteps,
                                 [char |-> char, low |-> newLow, high |-> newHigh,
                                  rangeStr |-> RangeStr(newLow, newHigh)]),
                !.low = newLow,
                !.high = newHigh,
                !.i = l.i + 1]

RECURSIVE BigPowSmallFrom(_, _, _)
\* acc * b^e
BigPowSmallFrom(b, e, acc) ==
  IF e = 0 \/ acc = <<>> THEN acc ELSE BigPowSmallFrom(b, e - 1, BigMulSmall(acc, b))

\* b^e for 0 <= b < BASE
BigPowSmall(b, e) == BigPowSmallFrom(b, e, <<1>>)

RECURSIVE BigProdPowersFrom(_, _, _)
\* acc times the product of f^f over the frequencies from the j-th on
BigProdPowersFrom(freqs, j, acc) ==
  IF j > Len(freqs) \/ acc = <<>> THEN acc
  ELSE BigProdPowersFrom(freqs, j + 1, BigMul(acc, BigPowSmall(freqs[j].v, freqs[j].v)))

\* the product of f^f over the frequencies f of the table, from the j-th on
BigProdPowers(freqs, j) == BigProdPowersFrom(freqs, j, <<1>>)

\* the least k >= from with a * 2^k >= b, for a > 0: a * 2^k has the bits of
\* a and k more, so k is the difference of the bit lengths or one above it
LeastShift(a, b, from) ==
  LET k == Max(from, BigBitLen(b) - BigBitLen(a))
  IN  IF BigCmp(BigShl(a, k), b) >= 0 THEN k ELSE k + 1

\* the sum of the frequencies of the table, from the j-th on
SumFreqs(freqs, j) ==
  Cardinality(UNION {{<<i, c>> : c \in 1..freqs[i].v} : i \in j..Len(freqs)})

\* Math.ceil(n * entropy), entropy = - sum of p * Math.log2(p), p = f / n.
\* n * entropy is log2(n^F / product of f^f), F the sum of the f (n itself
\* unless the input holds surrogate pairs); Math.log2 is exact on powers of
\* two, and for the other frequency tables of at most ARITH_SAFE_LENGTH symbols
\* the value is too far from an integer for rounding to change its ceiling
TheoreticalBits(freqs, n) ==
  CHOOSE bits \in
    {LeastShift(a, b, 0) :
       a \in {BigProdPowers(freqs, 1)}, b \in {BigPowSmall(n, SumFreqs(freqs, 1))}} : TRUE

ArithResult(l) ==
  LET tag == DDivInt(DAdd(l.low, l.high), 2)
      n == Len(l.safeInput)
      theoreticalBits == TheoreticalBits(l.freqs, n)
  IN  [encoded |-> ToFixed(tag, ARITH_TAG_DIGITS)
                   \o (IF l.isTruncated THEN STR_ELLIPSIS ELSE <<>>),
       originalSize |-> n * BITS_PER_CHAR,
       compressedSize |-> theoreticalBits,
       ratio |-> Ratio(theoreticalBits, n * BITS_PER_CHAR),
       steps |-> l.rangeSteps,
       dictionary |-> l.probs]

CallArithmetic ==
  /\ pc = "idle"
  /\ alg' = "ARITHMETIC"
  /\ IF input = <<>>
     THEN /\ result' = EmptyResult
          /\ pc' = "done"
          /\ loc' = loc
     ELSE /\ loc' = [safeInput |-> SafeInput(input),
                     isTruncated |-> Len(input) > ARITH_SAFE_LENGTH,
                     freqs |-> CountChars(SafeInput(input)),
                     probs |-> ArithProbs(SafeInput(input)),
                     low |-> DZero, high |-> DFromInt(1),
                     rangeSteps |-> <<>>, i |-> 0]
          /\ pc' = "arith_for"
          /\ result' = result
  /\ UNCHANGED <<input, mParam>>
  /\ UNCHANGED appVars

ArithFor ==
  /\ pc = "arith_for"
  /\ loc.i < Len(CodePoints(loc.safeInput))
  /\ loc' = ArithBody(loc)
  /\ UNCHANGED <<alg, input, mParam, pc, result>>
  /\ UNCHANGED appVars

ArithReturn ==
  /\ pc = "arith_for"
  /\ ~(loc.i < Len(CodePoints(loc.safeInput)))
  /\ result' = ArithResult(loc)
  /\ pc' = "done"
  /\ UNCHANGED <<alg, input, mParam, loc>>
  /\ UNCHANGED appVars

NextArithmetic == CallArithmetic \/ ArithFor \/ ArithReturn

SpecArithmetic == Init /\ [][NextArithmetic]_vars

(***************************************************************************)
(* compressTunstall                                                        *)
(***************************************************************************)
BIT_WIDTH == 4
STR_ERR == <<69, 82, 82>>

\* the longest string the engine builds: a longer concatenation aborts the
\* call with a RangeError (V8 allows 2^29 - 24 code units; the model far fewer)
MaxStringLength == 20

\* Math.pow(2, BIT_WIDTH)
MAX_DICT_SIZE == Pow2(BIT_WIDTH)

\* alphabet.map(char => ({ seq: char, prob: freqs[char] / total }))
TunstallSeed(freqs, alphabet, total) ==
  [j \in 1..Len(alphabet) |->
     [seq |-> alphabet[j], prob |-> DDivInt(DFromInt(ObjGet(freqs, alphabet[j])), total)]]

\* the loop condition dictionary.length + alphabet.length - 1 <= MAX_DICT_SIZE
TunstallCanGrow(l) == Len(l.dictionary) + Len(l.alphabet) - 1 <= MAX_DICT_SIZE

\* the comparator (a, b) => b.prob - a.prob
ProbGreater(a, b) == DLess(b.prob, a.prob)

\* dictionary.sort((a, b) => b.prob - a.prob)
TunstallSorted(d) == StableSort(d, [i, j \in 1..Len(d) |-> ProbGreater(d[i], d[j])])

\* dictionary.sort(...); const best = dictionary.shift()
TunstallBest(l) == TunstallSorted(l.dictionary)[1]

\* the loop with the expanded entry left in the dictionary
TunstallGrowBodyKeepBest(l) ==
  LET sorted == TunstallSorted(l.dictionary)
      best == sorted[1]
      pushed == [j \in 1..Len(l.alphabet) |->
                   [seq |-> best.seq \o l.alphabet[j],
                    prob |-> DMul(best.prob,
                                  DDivInt(DFromInt(ObjGet(l.freqs, l.alphabet[j])), l.total))]]
  IN  [l EXCEPT !.dictionary = sorted \o pushed]

\* one iteration of the while loop, for a non-empty dictionary
TunstallGrowBody(l) ==
  LET sorted == TunstallSorted(l.dictionary)
      best == sorted[1]
      pushed == [j \in 1..Len(l.alphabet) |->
                   [seq |-> best.seq \o l.alphabet[j],
                    prob |-> DMul(best.prob,
                                  DDivInt(DFromInt(ObjGet(l.freqs, l.alphabet[j])), l.total))]]
  IN  [l EXCEPT !.dictionary = Tail(sorted) \o pushed]

RECURSIVE TunstallCodeMapFrom(_, _)
\* dictionary.forEach((item, index) => codeMap[item.seq] = index.toString(2).padStart(4, '0')),
\* from the acc.j-th item on, with the codeMap the items before it have left
TunstallCodeMapFrom(dictionary, acc) ==
  IF acc.j > Len(dictionary) THEN acc.codeMap
  ELSE TunstallCodeMapFrom(dictionary,
         [j |-> acc.j + 1,
          codeMap |-> ObjSet(acc.codeMap, dictionary[acc.j].seq,
                             PadStart(ToBinary(acc.j - 1), BIT_WIDTH, CH_ZERO))])

TunstallCodeMap(dictionary) == TunstallCodeMapFrom(dictionary, [j |-> 1, codeMap |-> <<>>])

\* the comparator (a, b) => b.length - a.length
Longer(a, b) == Len(a) > Len(b)

\* Object.keys(codeMap).sort((a, b) => b.length - a.length)
TunstallSortedKeys(codeMap) ==
  LET ks == ObjKeys(codeMap)
  IN  StableSort(ks, [i, j \in 1..Len(ks) |-> Longer(ks[i], ks[j])])

\* the keys that match the input at position i, in the order they are tried
TunstallMatches(in, sortedKeys, i) ==
  {j \in 1..Len(sortedKeys) : StartsWith(in, sortedKeys[j], i)}

\* one iteration of while (i < input.length)
TunstallTokenBody(in, l) ==
  LET matches == TunstallMatches(in, l.sortedKeys, l.i)
      seq == l.sortedKeys[CHOOSE j \in matches : \A x \in matches : j <= x]
  IN  IF matches # {}
      THEN [l EXCEPT !.encoded = l.encoded \o ObjGet(l.codeMap, seq),
                     !.steps = Append(l.steps, [seq |-> seq, code |-> ObjGet(l.codeMap, seq)]),
                     !.i = l.i + Len(seq)]
      ELSE [l EXCEPT !.encoded = l.encoded \o STR_ERR,
                     !.steps = Append(l.steps, [seq |-> <<CharAt(in, l.i)>>, code |-> STR_ERR]),
                     !.i = l.i + 1]

TunstallResult(in, l) ==
  [encoded |-> l.encoded, originalSize |-> Len(in) * BITS_PER_CHAR,
   compressedSize |-> Len(l.encoded),
   ratio |-> Ratio(Len(l.encoded), Len(in) * BITS_PER_CHAR),
   steps |-> l.steps, dictionary |-> l.codeMap]

CallTunstall ==
  /\ pc = "idle"
  /\ alg' = "TUNSTALL"
  /\ IF input = <<>>
     THEN /\ result' = EmptyResult
          /\ pc' = "done"
          /\ loc' = loc
     ELSE /\ \E freqs \in {CountChars(input)} :
               \E alphabet \in {ObjKeys(freqs)} :
                 loc' = [freqs |-> freqs, alphabet |-> alphabet, total |-> Len(input),
                         dictionary |-> TunstallSeed(freqs, alphabet, Len(input)),
                         codeMap |-> <<>>, sortedKeys |-> <<>>,
                         encoded |-> <<>>, steps |-> <<>>, i |-> 0]
          /\ pc' = "tunstall_while"
          /\ result' = result
  /\ UNCHANGED <<input, mParam>>
  /\ UNCHANGED appVars

TunstallGrow ==
  /\ pc = "tunstall_while"
  /\ TunstallCanGrow(loc)
  /\ loc.dictionary # <<>>
  /\ Len(TunstallBest(loc).seq) < MaxStringLength
  /\ loc' = TunstallGrowBody(loc)
  /\ UNCHANGED <<alg, input, mParam, pc, result>>
  /\ UNCHANGED appVars

\* RangeError: Invalid string length, from best.seq + char
TunstallAbort ==
  /\ pc = "tunstall_while"
  /\ TunstallCanGrow(loc)
  /\ loc.dictionary # <<>>
  /\ ~(Len(TunstallBest(loc).seq) < MaxStringLength)
  /\ pc' = "threw"
  /\ UNCHANGED <<alg, input, mParam, loc, result>>
  /\ UNCHANGED appVars

\* the loop is left (its condition fails, or best is undefined); codeMap and
\* sortedKeys are built
TunstallCodes ==
  /\ pc = "tunstall_while"
  /\ ~(TunstallCanGrow(loc) /\ loc.dictionary # <<>>)
  /\ loc' = [loc EXCEPT !.codeMap = TunstallCodeMap(loc.dictionary),
                        !.sortedKeys = TunstallSortedKeys(TunstallCodeMap(loc.dictionary))]
  /\ pc' = "tunstall_tokenize"
  /\ UNCHANGED <<alg, input, mParam, result>>
  /\ UNCHANGED appVars

TunstallToken ==
  /\ pc = "tunstall_tokenize"
  /\ loc.i < Len(input)
  /\ loc' = TunstallTokenBody(input, loc)
  /\ UNCHANGED <<alg, input, mParam, pc, result>>
  /\ UNCHANGED appVars

TunstallReturn ==
  /\ pc = "tunstall_tokenize"
  /\ ~(loc.i < Len(input))
  /\ result' = TunstallResult(input, loc)
  /\ pc' = "done"
  /\ UNCHANGED <<alg, input, mParam, loc>>
  /\ UNCHANGED appVars

NextTunstall ==
  \/ CallTunstall
  \/ TunstallGrow
  \/ TunstallAbort
  \/ TunstallCodes
  \/ TunstallToken
  \/ TunstallReturn

SpecTunstall == Init /\ [][NextTunstall]_vars

(***************************************************************************)
(* Any encoder, called once on any input.                                  *)
(***************************************************************************)
Next ==
  \/ NextRLE
  \/ NextHuffman
  \/ NextLZW
  \/ NextGolomb
  \/ NextArithmetic
  \/ NextTunstall

Spec == Init /\ [][Next]_vars

(***************************************************************************)
(* The App component.  An event handler runs to its end, the component     *)
(* renders, and the recompute effect of that render runs before the next   *)
(* event is handled: effect is "pending" from the render until the effect  *)
(* starts, "running" while the encoder it calls is at work, and "idle"     *)
(* after it.                                                               *)
(***************************************************************************)
Tabs == {"HUFFMAN", "RLE", "GOLOMB", "LZW", "ARITHMETIC", "TUNSTALL"}

\* SCENARIOS[tab]
ScenarioOf(tab) ==
  CASE tab = "HUFFMAN" -> SCENARIO_HUFFMAN
    [] tab = "RLE" -> SCENARIO_RLE
    [] tab = "GOLOMB" -> SCENARIO_GOLOMB
    [] tab = "LZW" -> SCENARIO_LZW
    [] tab = "ARITHMETIC" -> SCENARIO_ARITHMETIC
    [] tab = "TUNSTALL" -> SCENARIO_TUNSTALL

SCENARIO_M == 5

\* the texts typed into the input field while a tab is active: "", "A",
\* "10" and, for LZW, the text that shadows hasOwnProperty
TypedInputs(tab) ==
  {<<>>, <<65>>, INPUT_TEN} \cup (IF tab = "LZW" THEN {INPUT_SHADOW} ELSE {})

\* the texts typed into the field of M: "", "0", "-3", "3"
TypedM == {<<>>, <<CH_ZERO>>, <<CH_MINUS, 51>>, <<51>>}

\* Math.max(1, parseInt(value) || 1)
ParsedM(value) ==
  LET p == ParseInt(value)
  IN  IF p.nan \/ p.val = 0 \/ p.neg THEN DFromInt(1) ELSE DFromInt(p.val)

\* the state of App before the first render, with the encoders at rest
InitApp ==
  /\ alg = NULL
  /\ input = SCENARIO_HUFFMAN
  /\ mParam = DFromInt(DEFAULT_M)
  /\ pc = "idle"
  /\ loc = <<>>
  /\ result = NULL
  /\ AppMounted

\* the render after an event: the effect is due when a dependency changed
Rerender == IF <<input', activeTab', golombM'>> # <<input, activeTab, golombM>>
            THEN "pending" ELSE "idle"

\* onClick of a tab: setActiveTab(id); setInput(""); setResult(null)
SelectTab ==
  /\ effect = "idle"
  /\ \E id \in Tabs : activeTab' = id
  /\ input' = <<>>
  /\ appResult' = <<>>
  /\ resultFrom' = <<>>
  /\ golombM' = golombM
  /\ effect' = Rerender
  /\ UNCHANGED <<alg, mParam, pc, loc, result>>

\* onChange of the input field: setInput(e.target.value)
EditInput ==
  /\ effect = "idle"
  /\ \E value \in TypedInputs(activeTab) : input' = value
  /\ UNCHANGED <<activeTab, golombM, appResult, resultFrom>>
  /\ effect' = Rerender
  /\ UNCHANGED <<alg, mParam, pc, loc, result>>

\* onChange of the field of M, which the Golomb tab shows
ChangeM ==
  /\ effect = "idle"
  /\ activeTab = "GOLOMB"
  /\ \E value \in TypedM : golombM' = ParsedM(value)
  /\ UNCHANGED <<input, activeTab, appResult, resultFrom>>
  /\ effect' = Rerender
  /\ UNCHANGED <<alg, mParam, pc, loc, result>>

\* handleLoadScenario
LoadScenario ==
  /\ effect = "idle"
  /\ input' = ScenarioOf(activeTab)
  /\ golombM' = IF activeTab = "GOLOMB" THEN DFromInt(SCENARIO_M) ELSE golombM
  /\ UNCHANGED <<activeTab, appResult, resultFrom>>
  /\ effect' = Rerender
  /\ UNCHANGED <<alg, mParam, pc, loc, result>>

\* the effect starts: if (!input) { setResult(null); return }
EffectStart ==
  /\ effect = "pending"
  /\ IF input = <<>>
     THEN /\ appResult' = <<>>
          /\ resultFrom' = <<>>
          /\ effect' = "idle"
     ELSE /\ effect' = "running"
          /\ UNCHANGED <<appResult, resultFrom>>
  /\ alg' = NULL
  /\ pc' = "idle"
  /\ loc' = <<>>
  /\ result' = NULL
  /\ UNCHANGED <<input, mParam, activeTab, golombM>>

\* switch (activeTab): the call of the encoder of the tab
Compress ==
  /\ effect = "running"
  /\ CASE activeTab = "RLE" -> CallRLE
       [] activeTab = "HUFFMAN" -> CallHuffman
       [] activeTab = "LZW" -> CallLZW
       [] activeTab = "GOLOMB" -> GolombEnter(golombM)
       [] activeTab = "ARITHMETIC" -> CallArithmetic
       [] activeTab = "TUNSTALL" -> CallTunstall

\* setResult(res)
SetResult ==
  /\ effect = "running"
  /\ pc = "done"
  /\ appResult' = <<result>>
  /\ resultFrom' = <<[alg |-> alg, input |-> input, m |-> mParam]>>
  /\ effect' = "idle"
  /\ alg' = NULL
  /\ pc' = "idle"
  /\ loc' = <<>>
  /\ result' = NULL
  /\ UNCHANGED <<input, mParam, activeTab, golombM>>

\* catch (e) { console.error(e); setResult(null) }
Catch ==
  /\ effect = "running"
  /\ pc = "threw"
  /\ appResult' = <<>>
  /\ resultFrom' = <<>>
  /\ effect' = "idle"
  /\ alg' = NULL
  /\ pc' = "idle"
  /\ loc' = <<>>
  /\ result' = NULL
  /\ UNCHANGED <<input, mParam, activeTab, golombM>>

\* the steps of an encoder after its call
EncoderStep ==
  \/ RLEFor \/ RLEReturn
  \/ HuffmanMerge \/ HuffmanGenerate \/ HuffmanEncode \/ HuffmanReturn
  \/ LZWFor \/ LZWThrow \/ LZWReturn
  \/ GolombFor \/ GolombReturn
  \/ ArithFor \/ ArithReturn
  \/ TunstallGrow \/ TunstallAbort \/ TunstallCodes \/ TunstallToken \/ TunstallReturn

NextApp ==
  \/ SelectTab
  \/ EditInput
  \/ ChangeM
  \/ LoadScenario
  \/ EffectStart
  \/ Compress
  \/ EncoderStep
  \/ SetResult
  \/ Catch

SpecApp == InitApp /\ [][NextApp]_vars

(***************************************************************************)
(* Properties.                                                             *)
(***************************************************************************)
\* a is a prefix of b
IsPrefix(a, b) == Len(a) <= Len(b) /\ SubSeq(b, 1, Len(a)) = a

\* a string of '0' and '1' only
IsBits(str) == \A j \in 1..Len(str) : str[j] \in {CH_ZERO, CH_ONE}

\* the code fields of a list of steps, joined
StepCodes(steps) == Concat([j \in 1..Len(steps) |-> steps[j].code])

\* C1: a call of compressTunstall on a non-empty input runs to completion:
\* it is inside its growth loop or its tokenizer, or it has returned its
\* result; it never stops short of returning, as it does when the engine
\* aborts a growth loop that cannot reach its exit condition.
C1_TunstallRunsToCompletion ==
  (alg = "TUNSTALL" /\ input # <<>>) =>
    pc \in {"tunstall_while", "tunstall_tokenize", "done"}

\* C2 as stated: compressGolomb with M = 4 on "10" computes b = 2, cutoff = 2,
\* quotient 2, remainder 2, unary "110", binary "00" and code "11000".
C2_GolombTenAsStated ==
  (alg = "GOLOMB" /\ input = INPUT_TEN /\ mParam = DFromInt(4) /\ pc = "done") =>
    /\ loc.b = 2 /\ loc.cutoff = DFromInt(2)
    /\ result.steps[1].q = 2 /\ result.steps[1].r = 2
    /\ result.steps[1].unary = <<49, 49, 48>>
    /\ result.steps[1].binary = <<48, 48>>
    /\ result.encoded = <<49, 49, 48, 48, 48>>

\* C2 amended: compressGolomb with M = 4 on "10" computes b = 2, cutoff = 0,
\* quotient 2, remainder 2, unary "110", binary "10" (remainder + cutoff in 2
\* bits) and code "11010".
C2_GolombTen ==
  (alg = "GOLOMB" /\ input = INPUT_TEN /\ mParam = DFromInt(4) /\ pc = "done") =>
    /\ loc.b = 2 /\ loc.cutoff = DZero
    /\ Len(result.steps) = 1
    /\ result.steps[1].number = 10
    /\ result.steps[1].q = 2 /\ result.steps[1].r = 2
    /\ result.steps[1].unary = <<49, 49, 48>>
    /\ result.steps[1].binary = <<49, 48>>
    /\ result.steps[1].code = <<49, 49, 48, 49, 48>>
    /\ result.encoded = <<49, 49, 48, 49, 48>>

C2_Witness ==
  alg = "GOLOMB" /\ input = INPUT_TEN /\ mParam = DFromInt(4) /\ pc = "done" /\ Len(result.steps) = 1

\* the number of codes written in the space-separated string of an LZW result
CodesIn(encoded) ==
  Cardinality({j \in 1..Len(encoded) :
     encoded[j] # CH_SPACE /\ (j = 1 \/ encoded[j - 1] = CH_SPACE)})

\* C3: in every returned result compressedSize is the bit cost of encoded:
\* Huffman, Golomb and Tunstall return a string of bits and its length, RLE
\* 16 bits per emitted run, LZW 12 bits per code of encoded.
C3_CompressedSizeIsBitCost ==
  (pc = "done" /\ result # EmptyResult) =>
    /\ alg \in {"HUFFMAN", "GOLOMB", "TUNSTALL"} =>
         IsBits(result.encoded) /\ result.compressedSize = Len(result.encoded)
    /\ alg = "RLE" => result.compressedSize = RLE_BITS_PER_RUN * Len(result.steps)
    /\ alg = "LZW" => result.compressedSize = LZW_BITS_PER_CODE * CodesIn(result.encoded)

\* C4: in compressRLE, compressGolomb and compressTunstall the code fields of
\* the steps, joined in order, are exactly encoded, after every loop iteration
\* and in the returned result.
C4_StepsReproduceEncoded ==
  /\ (alg = "RLE" /\ pc = "rle_for") => StepCodes(loc.steps) = loc.encoded
  /\ (alg = "GOLOMB" /\ pc = "golomb_for") => StepCodes(loc.steps) = loc.encodedStream
  /\ (alg = "TUNSTALL" /\ pc = "tunstall_tokenize") => StepCodes(loc.steps) = loc.encoded
  /\ (alg \in {"RLE", "GOLOMB", "TUNSTALL"} /\ pc = "done") =>
       StepCodes(result.steps) = result.encoded

C4_Witness ==
  /\ alg = "RLE" /\ pc = "done" /\ input = SCENARIO_RLE
  /\ Len(result.steps) = 5

\* the symbols of the input, as for (const char of in) visits them
Symbols(in) == LET cps == CodePoints(in) IN {cps[j] : j \in 1..Len(cps)}

\* C5: compressHuffman gives an input with one distinct symbol the table
\* {symbol: "0"}; with two or more distinct symbols every symbol gets a
\* non-empty code and no symbol's code is a prefix of another symbol's code.
C5_HuffmanPrefixFree ==
  (alg = "HUFFMAN" /\ pc = "done" /\ input # <<>>) =>
    LET codes == result.dictionary IN
    /\ \A c \in Symbols(input) : ObjHas(codes, c)
    /\ Len(codes) = Cardinality(Symbols(input))
    /\ Cardinality(Symbols(input)) = 1 =>
         codes = <<[k |-> CodePoints(input)[1], v |-> <<CH_ZERO>>]>>
    /\ Cardinality(Symbols(input)) >= 2 =>
         /\ \A j \in 1..Len(codes) : codes[j].v # <<>> /\ IsBits(codes[j].v)
         /\ \A j, x \in 1..Len(codes) : j # x => ~IsPrefix(codes[j].v, codes[x].v)

C5_Witness ==
  /\ alg = "HUFFMAN" /\ pc = "done" /\ input = SCENARIO_HUFFMAN
  /\ Len(result.dictionary) = 6

\* the substring of len characters of the input from its p-th character on
Sub(p, len) == SubSeq(input, p, p + len - 1)

\* the number of input characters consumed before each step's prefix w
StepStarts(steps) ==
  [j \in 1..Len(steps) |-> Len(Concat([x \in 1..(j - 1) |-> steps[x].w]))]

\* the occurrence of len characters at p repeats an earlier occurrence
IsRepeat(p, len) == \E p0 \in 1..(p - 1) : Sub(p0, len) = Sub(p, len)

\* C6 as stated: compressLZW on the "taka tuka ..." scenario emits every
\* repeated substring of 4 or more characters, at each occurrence after its
\* first, as a single code: one step's prefix w covers that occurrence.
C6_LZWRepeatsAsStated ==
  (alg = "LZW" /\ pc = "done" /\ input = SCENARIO_LZW) =>
    LET steps == result.steps
        starts == StepStarts(steps)
    IN  \A p \in 1..Len(input) : \A len \in 4..(Len(input) - p + 1) :
          IsRepeat(p, len) =>
            \E j \in 1..Len(steps) :
              starts[j] + 1 <= p /\ p + len - 1 <= starts[j] + Len(steps[j].w)

\* C6 amended: on that input the prefixes w of the steps tile the input, and
\* every step whose prefix w has two or more characters emits a single code
\* from 256 on, the one an earlier step inserted for that same string, so w is
\* a substring that occurred earlier in the input; some steps emit prefixes of
\* 4 or more characters that way.
C6_LZWRepeats ==
  (alg = "LZW" /\ pc = "done" /\ input = SCENARIO_LZW) =>
    LET steps == result.steps
        starts == StepStarts(steps)
    IN  /\ Concat([j \in 1..Len(steps) |-> steps[j].w]) = input
        /\ \A j \in 1..Len(steps) :
             Len(steps[j].w) >= 2 =>
               /\ Len(steps[j].output) = 1
               /\ steps[j].output[1] >= LZW_SEED_SIZE
               /\ \E x \in 1..(j - 1) :
                    /\ steps[x].addedToDict = steps[j].w
                    /\ steps[x].newCode = steps[j].output[1]
               /\ IsRepeat(starts[j] + 1, Len(steps[j].w))
        /\ \E j \in 1..Len(steps) : Len(steps[j].w) >= 4

C6_Witness ==
  /\ alg = "LZW" /\ pc = "done" /\ input = SCENARIO_LZW
  /\ \E j \in 1..Len(result.steps) : Len(result.steps[j].w) >= 4

\* C7: at every point of the scan of compressLZW the dictionary holds the 256
\* single-character strings under 0..255 followed by one entry per step taken
\* so far, the step's w+c under the step's new code, the codes being 256, 257,
\* ... in step order, and no two entries have the same key.
C7_LZWDictionaryInjective ==
  (alg = "LZW" /\ pc = "lzw_for") =>
    LET d == loc.dictionary
        steps == loc.steps
    IN  /\ Len(d) = LZW_SEED_SIZE + Len(steps)
        /\ loc.dictSize = LZW_SEED_SIZE + Len(steps)
        /\ \A j \in 1..LZW_SEED_SIZE : d[j] = [k |-> <<j - 1>>, v |-> j - 1]
        /\ \A j \in 1..Len(steps) :
             /\ steps[j].newCode = LZW_SEED_SIZE + j - 1
             /\ d[LZW_SEED_SIZE + j] = [k |-> steps[j].addedToDict, v |-> steps[j].newCode]
        /\ \A j \in 1..Len(d) : \A x \in (LZW_SEED_SIZE + 1)..Len(d) :
             j # x => d[j].k # d[x].k

RECURSIVE BigFromDigitsFrom(_, _, _)
\* the number written by the decimal digits among the first j characters of
\* str, acc.val being the number written by those among the first acc.i
BigFromDigitsFrom(str, j, acc) ==
  IF acc.i = j THEN acc.val
  ELSE BigFromDigitsFrom(str, j,
         [i |-> acc.i + 1,
          val |-> IF str[acc.i + 1] >= CH_ZERO /\ str[acc.i + 1] < CH_ZERO + 10
                  THEN BigTrim(BigAdd(BigMulSmall(acc.val, 10),
                                      BigFromInt(str[acc.i + 1] - CH_ZERO)))
                  ELSE acc.val])

\* the number written by the decimal digits among the first j characters of str
BigFromDigits(str, j) == BigFromDigitsFrom(str, j, [i |-> 0, val |-> <<>>])

\* -1, 0, 1 as the double x >= 0 is <, =, > N / 10^f
DCmpDecimal(x, N, f) ==
  IF DIsZero(x) THEN (IF N = <<>> THEN 0 ELSE -1)
  ELSE IF x.e >= 0 THEN BigCmp(BigMulPow10(BigShl(x.m, x.e), f), N)
  ELSE BigCmp(BigMulPow10(x.m, f), BigShl(N, -x.e))

\* C8: in compressArithmetic, for every non-empty input, every narrowing step
\* leaves low < high with the new interval inside the previous one, and the tag
\* written in encoded lies in the terminal interval [low, high).
C8_ArithmeticIntervals ==
  (alg = "ARITHMETIC" /\ input # <<>>) =>
    LET rs == loc.rangeSteps
        tag == BigFromDigits(result.encoded, Len(result.encoded))
    IN  /\ \A j \in 1..Len(rs) :
             /\ DLess(rs[j].low, rs[j].high)
             /\ DCmp(IF j = 1 THEN DZero ELSE rs[j - 1].low, rs[j].low) <= 0
             /\ DCmp(rs[j].high, IF j = 1 THEN DFromInt(1) ELSE rs[j - 1].high) <= 0
        /\ pc = "done" =>
             /\ DCmpDecimal(loc.low, tag, ARITH_TAG_DIGITS) <= 0
             /\ DCmpDecimal(loc.high, tag, ARITH_TAG_DIGITS) > 0

\* C9: for every non-empty input the dictionary returned by compressTunstall
\* has at most 16 entries, each code is exactly 4 bits, and no two entries
\* have the same code.
C9_TunstallFourBitCodes ==
  (alg = "TUNSTALL" /\ pc = "done" /\ input # <<>>) =>
    LET d == result.dictionary
    IN  /\ Len(d) <= MAX_DICT_SIZE
        /\ \A j \in 1..Len(d) : Len(d[j].v) = BIT_WIDTH /\ IsBits(d[j].v)
        /\ \A j, x \in 1..Len(d) : j # x => d[j].v # d[x].v

\* the seq fields of a list of steps, joined
StepSeqs(steps) == Concat([j \in 1..Len(steps) |-> steps[j].seq])

\* C10: in compressTunstall no key of the final dictionary is a prefix of
\* another, so at most one key matches at any input position, and the seq
\* fields of the steps, joined in order, are the part of the input the
\* tokenizer has consumed: the whole input in the returned result.
C10_TunstallSegmentation ==
  (alg = "TUNSTALL" /\ pc \in {"tunstall_tokenize", "done"} /\ input # <<>>) =>
    LET keys == ObjKeys(loc.codeMap)
    IN  /\ \A j, x \in 1..Len(keys) : j # x => ~IsPrefix(keys[j], keys[x])
        /\ \A p \in 0..(Len(input) - 1) :
             Cardinality(TunstallMatches(input, loc.sortedKeys, p)) <= 1
        /\ StepSeqs(loc.steps) = SubSeq(input, 1, loc.i)
        /\ pc = "done" =>
             /\ result.dictionary = loc.codeMap
             /\ StepSeqs(result.steps) = input

C10_Witness ==
  /\ alg = "TUNSTALL" /\ pc = "done" /\ input = SCENARIO_TUNSTALL
  /\ \E j \in 1..Len(result.steps) : result.steps[j].code = STR_ERR
  /\ \E j \in 1..Len(result.steps) : Len(result.steps[j].seq) >= 2

\* the zero-valued result: encoded "", sizes 0, ratio 0, no steps
IsZeroResult(r) ==
  /\ r.encoded = <<>> /\ r.originalSize = 0 /\ r.compressedSize = 0
  /\ DIsZero(r.ratio) /\ r.steps = <<>>

\* C11: every returned result has originalSize 0 exactly when it is the
\* zero-valued result, and that is returned exactly for the empty input and,
\* by compressGolomb, for an input with no valid non-negative number; every
\* other returned result has originalSize > 0, the divisor of its ratio.
C11_ZeroResultOnlyForEmpty ==
  pc = "done" =>
    /\ result.originalSize = 0 <=> IsZeroResult(result)
    /\ result.originalSize >= 0
    /\ result.originalSize = 0 <=>
         (input = <<>> \/ (alg = "GOLOMB" /\ GolombNumbers(input) = <<>>))

C11_Witness ==
  /\ alg = "GOLOMB" /\ pc = "done" /\ input = INPUT_COMMA
  /\ IsZeroResult(result)

\* q ones followed by a single zero
IsUnary(str, q) ==
  /\ Len(str) = q + 1
  /\ \A j \in 1..q : str[j] = CH_ONE
  /\ str[q + 1] = CH_ZERO

\* the step records of compressGolomb for the first n parsed numbers
GolombStepsOk(steps, n) ==
  LET M == IF DLess(mParam, DFromInt(1)) THEN DFromInt(1) ELSE mParam
      numbers == GolombNumbers(input)
  IN  /\ Len(steps) = n
      /\ n <= Len(numbers)
      /\ \A j \in 1..n :
           /\ steps[j].number = numbers[j]
           /\ DCmp(DFromInt(steps[j].number),
                   DAdd(DMul(DFromInt(steps[j].q), M), DFromInt(steps[j].r))) = 0
           /\ 0 <= steps[j].r /\ DLess(DFromInt(steps[j].r), M)
           /\ IsUnary(steps[j].unary, steps[j].q)

RLEExpand(steps) ==
  Concat([j \in 1..Len(steps) |-> Repeat(steps[j].char, steps[j].count)])

\* C13: compressRLE emits one step per maximal run, in order: adjacent steps
\* have different symbols, every count is at least 1, the steps expanded give
\* back the input, originalSize is 8 per character and compressedSize 16 per
\* run (twice the original size when no two adjacent characters are equal);
\* "AAAAAAABBBCCDDDDDDEEE" gives (A,7),(B,3),(C,2),(D,6),(E,3), "7A3B2C6D3E",
\* compressedSize 80 and originalSize 168.
C13_RLEMaximalRuns ==
  (alg = "RLE" /\ pc = "done" /\ input # <<>>) =>
    LET steps == result.steps IN
    /\ \A j \in 1..Len(steps) : steps[j].count >= 1
    /\ \A j \in 1..(Len(steps) - 1) : steps[j].char # steps[j + 1].char
    /\ RLEExpand(steps) = input
    /\ result.originalSize = 8 * Len(input)
    /\ result.compressedSize = 16 * Len(steps)
    /\ (\A j \in 1..(Len(input) - 1) : input[j] # input[j + 1]) =>
         result.compressedSize = 2 * result.originalSize
    /\ input = SCENARIO_RLE =>
         /\ [j \in 1..Len(steps) |-> <<steps[j].char, steps[j].count>>]
              = <<(<<65, 7>>), (<<66, 3>>), (<<67, 2>>), (<<68, 6>>), (<<69, 3>>)>>
         /\ result.encoded = <<55, 65, 51, 66, 50, 67, 54, 68, 51, 69>>
         /\ result.compressedSize = 80
         /\ result.originalSize = 168

C13_Witness ==
  /\ alg = "RLE" /\ pc = "done" /\ input = SCENARIO_RLE
  /\ result.compressedSize = 80

\* the number of occurrences of the symbol c in str
Occurrences(str, c) == Cardinality({j \in 1..Len(str) : str[j] = c})

\* C14: the probability table of compressArithmetic partitions [0,1): over
\* the distinct symbols of the (truncated) input in lexicographic order, the
\* first interval starts at 0, each interval starts where the previous one
\* ends, each has the positive width freq/length, and the last ends at 1.
C14_ArithmeticTablePartition ==
  (alg = "ARITHMETIC" /\ pc \in {"arith_for", "done"} /\ input # <<>>) =>
    LET prefix == SubSeq(input, 1, IF Len(input) < 15 THEN Len(input) ELSE 15)
        t == loc.probs
    IN  /\ {t[j].k : j \in 1..Len(t)} = Symbols(prefix)
        /\ \A j \in 1..(Len(t) - 1) : StrLess(t[j].k, t[j + 1].k)
        /\ DCmp(t[1].v.start, DZero) = 0
        /\ \A j \in 1..(Len(t) - 1) : DCmp(t[j + 1].v.start, t[j].v.end) = 0
        /\ \A j \in 1..Len(t) :
             /\ DCmp(t[j].v.p,
                     DDivInt(DFromInt(Occurrences(CodePoints(prefix), t[j].k)),
                             Len(prefix))) = 0
             /\ DLess(DZero, t[j].v.p)
             /\ DLess(t[j].v.start, t[j].v.end)
        /\ DCmp(t[Len(t)].v.end, DFromInt(1)) = 0

\* the code units of str, each as a string of one unit
Units(str) == [j \in 1..Len(str) |-> <<str[j]>>]

\* encoded ends with the truncation marker
HasMarker(encoded) ==
  Len(encoded) >= 3 /\ SubSeq(encoded, Len(encoded) - 2, Len(encoded)) = STR_ELLIPSIS

\* the result encodes exactly the first min(L,15) of the L symbols syms
EncodesPrefix(syms) ==
  LET n == Min(Len(syms), 15)
      t == result.dictionary
  IN  /\ Len(result.steps) = n
      /\ \A j \in 1..Len(result.steps) : j <= n /\ result.steps[j].char = syms[j]
      /\ result.originalSize = 8 * n
      /\ {t[j].k : j \in 1..Len(t)} = {syms[j] : j \in 1..n}
      /\ HasMarker(result.encoded) <=> Len(syms) > 15

\* C15: compressArithmetic encodes only the first min(L,15) symbols of an
\* input of length L: the table and the steps come from that prefix, there
\* are exactly min(L,15) steps, originalSize is 8*min(L,15), and "..." ends
\* encoded exactly when L > 15; the symbols are read either as the code
\* units of the input or as its code points.
C15_ArithmeticTruncation ==
  (alg = "ARITHMETIC" /\ pc = "done" /\ input # <<>>) =>
    EncodesPrefix(Units(input)) \/ EncodesPrefix(CodePoints(input))

\* C16: compressLZW, for every non-empty input of any code units, emits at
\* every step the code of a non-empty prefix w that is then a dictionary
\* key: every step's output is a defined integer, the w fields concatenate
\* to the input, encoded is the outputs joined by single spaces, and only
\* the last step has k = "EOF", with no dictionary insertion.
C16_LZWEmitsKnownPrefixes ==
  (alg = "LZW" /\ pc = "done" /\ input # <<>>) =>
    LET steps == result.steps
        n == Len(steps)
    IN  /\ n >= 1
        /\ \A j \in 1..n : steps[j].w # <<>> /\ steps[j].output # <<>>
        /\ Concat([j \in 1..n |-> steps[j].w]) = input
        /\ result.encoded
             = Concat([j \in 1..n |->
                         (IF j > 1 THEN <<CH_SPACE>> ELSE <<>>)
                         \o (IF steps[j].output = <<>> THEN <<>>
                             ELSE NumToStr(steps[j].output[1]))])
        /\ \A j \in 1..n : (steps[j].k = STR_EOF) <=> (j = n)
        /\ steps[n].addedToDict = STR_DASH /\ steps[n].newCode = STR_DASH

\* the input from the position of the j-th step on
RemainingAt(steps, j) ==
  SubSeq(input, Len(StepSeqs(SubSeq(steps, 1, j - 1))) + 1, Len(input))

\* C17: in compressTunstall, for an input with at least two distinct
\* symbols, the ERR steps form a trailing block (after an ERR step no step
\* is a dictionary match), and an ERR step is emitted only where the rest
\* of the input is a proper prefix of some dictionary key.
C17_TunstallErrTrailing ==
  (alg = "TUNSTALL" /\ pc \in {"tunstall_tokenize", "done"}
     /\ Cardinality(Symbols(input)) >= 2) =>
    LET steps == loc.steps
        keys == ObjKeys(loc.codeMap)
    IN  /\ \A j, x \in 1..Len(steps) :
             (j < x /\ steps[j].code = STR_ERR) => steps[x].code = STR_ERR
        /\ \A j \in 1..Len(steps) :
             steps[j].code = STR_ERR =>
               \E y \in 1..Len(keys) :
                 /\ IsPrefix(RemainingAt(steps, j), keys[y])
                 /\ RemainingAt(steps, j) # keys[y]
        /\ pc = "done" => result.steps = steps

\* C18: in compressGolomb, with b = ceil(log2 M) and cutoff = 2^b - M, the
\* binary part of every step is empty when M = 1, has exactly b-1 bits when
\* r < cutoff and exactly b bits otherwise; for the M of a call, distinct
\* numbers get distinct codes and no number's code is a prefix of another
\* number's code.
C18_GolombBinaryWidth ==
  (alg = "GOLOMB" /\ pc \in {"golomb_for", "done"} /\ GolombNumbers(input) # <<>>) =>
    LET M == DIntMag(IF DLess(mParam, DFromInt(1)) THEN DFromInt(1) ELSE mParam)
        b == BigBitLen(BigSub(M, <<1>>))
        cutoff == BigSub(BigShl(<<1>>, b), M)
        steps == loc.steps
    IN  /\ \A j \in 1..Len(steps) :
             /\ IsBits(steps[j].binary)
             /\ Len(steps[j].binary)
                  = (IF M = <<1>> THEN 0
                     ELSE IF BigCmp(BigFromInt(steps[j].r), cutoff) < 0 THEN b - 1
                     ELSE b)
             /\ steps[j].code = steps[j].unary \o steps[j].binary
        /\ \A j, x \in 1..Len(steps) :
             steps[j].number # steps[x].number =>
               ~IsPrefix(steps[j].code, steps[x].code)

\* the merge from the node list old to the node list new takes two nodes of
\* the smallest frequencies and appends one node with their sum
IsSmallestMerge(old, new) ==
  /\ Len(new) = Len(old) - 1
  /\ \E a, b \in 1..Len(old) :
       /\ a # b
       /\ \A c \in 1..Len(old) :
            c \notin {a, b} => old[a].freq <= old[c].freq /\ old[b].freq <= old[c].freq
       /\ {new[j] : j \in 1..(Len(new) - 1)} = {old[c] : c \in (1..Len(old)) \ {a, b}}
       /\ new[Len(new)].freq = old[a].freq + old[b].freq
       /\ {new[Len(new)].left, new[Len(new)].right} = {<<old[a]>>, <<old[b]>>}

\* the tree is finished: one root that counts every symbol of the input,
\* and no symbol has a longer code than a symbol that occurs less often
IsHuffmanTree(l) ==
  /\ Len(l.nodes) = 1
  /\ l.root = <<l.nodes[1]>>
  /\ l.root[1].freq = Len(l.symbols)
  /\ \A c, d \in DOMAIN l.freqs :
       l.freqs[c].v > l.freqs[d].v =>
         Len(ObjGet(l.codes, l.freqs[c].k)) <= Len(ObjGet(l.codes, l.freqs[d].k))

DIsInteger(x) == x.e >= 0 \/ BigShl(BigShr(x.m, -x.e), -x.e) = x.m

\* what holds of App in every rendered state: a result that is not null
\* came from the encoder of the active tab, and golombM is an integer >= 1
AppRendered ==
  /\ appResult # <<>> => resultFrom[1].alg = activeTab
  /\ DIsInteger(golombM) /\ ~DLess(golombM, DFromInt(1))

\* what holds of App once the recompute effect has run: the result is null
\* for the empty input and otherwise the result of the active tab's encoder
\* on the current input, with the current M for Golomb
AppRecomputed ==
  IF input = <<>> THEN appResult = <<>>
  ELSE /\ appResult # <<>>
       /\ resultFrom # <<>>
       /\ resultFrom[1].alg = activeTab
       /\ resultFrom[1].input = input
       /\ activeTab = "GOLOMB" => resultFrom[1].m = golombM

\* C20: in App, after any sequence of tab selections, input edits, changes
\* of M and scenario loads, every rendered state has a result that is null
\* or was produced by the encoder of the active tab, and an integer
\* golombM >= 1; selecting a tab clears input and result together; once the
\* recompute effect has run, result is null if input is empty and otherwise
\* is the active tab's encoder applied to the current input (and M).
C20_AppResultFollowsInput ==
  [][/\ effect' # "running" => AppRendered'
     /\ activeTab' # activeTab => (input' = <<>> /\ appResult' = <<>>)
     /\ (effect # "idle" /\ effect' = "idle") => AppRecomputed']_vars

====
